---- MODULE Spec2Model ----
(***************************************************************************)
(* behrang/sqlbatch: a batch of SQL commands run in one transaction.       *)
(*                                                                         *)
(* The repository holds three revisions of the executor:                   *)
(*   "handler"  Handler.Batch(commands)         src/sqlbatch.go:41-103     *)
(*   "scan"     Batch(tx, commands), Scan/Memo  src/unnamed/part_001:105   *)
(*   "read"     Batch(tx, commands), ReadAll    src/sqlbatch.go:143-202    *)
(* One call of one of them is modelled step by step.  database/sql (the    *)
(* transaction, the statement results and the row cursor) is the           *)
(* environment: every outcome the code tests for is a choice of \E.        *)
(***************************************************************************)
EXTENDS Integers, Sequences, FiniteSets

\* ---------------------------------------------------------------- bounds
MaxCmds == 2
MaxRows == 2
MaxAffected == 1

\* ---------------------------------------------------------------- values
Variants == {"handler", "scan", "read"}
TxVariants == {"scan", "read"}

\* An interface{} value: nil, the int ReadOne returns, the slice ReadAll folds.
Nil == [type |-> "nil", v |-> <<>>]
IntVal(n) == [type |-> "int", v |-> <<n>>]
SliceVal(s) == [type |-> "slice", v |-> s]

\* An error value; NoErr is Go's nil error.
Err(kind, idx) == [kind |-> kind, idx |-> idx, expected |-> 0, actual |-> 0, query |-> 0]
NoErr == Err("nil", 0)

\* The values of Command.Init (Command.Memo in the "scan" revision).
Inits == {SliceVal(<<0>>)}

\* Command: ArgsFunc, ScanOnce/ReadOne and Scan/ReadAll are nil or set.
\* A command with Affect != 0 comes with both readers set or with none: the
\* write-check branch reads neither field.
Command == {c \in [affect : (0 - 1)..MaxAffected,
                   argsFunc : BOOLEAN,
                   readOne : BOOLEAN,
                   readAll : BOOLEAN,
                   init : Inits] : c.affect # 0 => c.readOne = c.readAll}

\* The command lists a call may be given.  (Handler.Batch's Command has no
\* Init field, and Handler.Batch never reads it.)
CommandLists(v) == UNION {[1..n -> Command] : n \in 0..MaxCmds}

\* Command.Query: the statement text, here the command's position.
QueryText(n) == n

\* The row the cursor of command n yields at position j.
Row(n, j) == 10 * n + j

VARIABLES
  pc,        \* where the call stands
  variant,   \* which revision of Batch is running
  commands,  \* the commands argument
  i,         \* the loop index (1-based)
  args,      \* the local args of the current iteration
  results,   \* the results slice
  memo,      \* the local memo of the ReadAll loop
  err,       \* the error the call returns
  tx,        \* the transaction: "none", "open", "committed", "commitFailed", "rolledBack"
  rows,      \* the cursor of the current read command
  opened,    \* indices of the commands whose cursor is open
  deferred,  \* indices whose rows.Close() is deferred ("read" revision)
  stmts,     \* statements issued to the transaction, in order
  resolved,  \* ArgsFunc calls, in order, each with the results it was passed
  calls,     \* ScanOnce/ReadOne and Scan/ReadAll calls, in order
  nexts,     \* rows.Next() calls per command
  affected,  \* the counts result.RowsAffected() reported, in order
  raised,    \* the first error a step of the call ran into
  fin,       \* the Commit/Rollback calls that found the transaction open
  durable    \* indices of the commands whose writes were committed

vars == <<pc, variant, commands, i, args, results, memo, err, tx, rows, opened,
          deferred, stmts, resolved, calls, nexts, affected, raised, fin, durable>>

\* No cursor; a cursor has yielded pos rows, and its statement changed
\* "changed" rows of the database.
NoRows == [idx |-> 0, pos |-> 0, changed |-> 0]

Init ==
  /\ pc = "idle"
  /\ variant = "handler"
  /\ commands = <<>>
  /\ i = 1
  /\ args = [from |-> "Args", seen |-> <<>>]
  /\ results = <<>>
  /\ memo = Nil
  /\ err = NoErr
  /\ tx = "none"
  /\ rows = NoRows
  /\ opened = {}
  /\ deferred = <<>>
  /\ stmts = <<>>
  /\ resolved = <<>>
  /\ calls = <<>>
  /\ nexts = <<>>
  /\ affected = <<>>
  /\ raised = NoErr
  /\ fin = <<>>
  /\ durable = {}

\* ------------------------------------------------------- pieces of the code

\* The branch test written as Affect >= 0, and as Affect > 0.
IsWriteCheckNonNegative(command) == command.affect >= 0
IsWriteCheckPositive(command) == command.affect > 0
\* if command.Affect != 0 { write-check } else { read }
IsWriteCheck(command) == command.affect # 0

\* The expectation without the clamp of a negative Affect.
ExpectedUnclamped(affect) == affect
\* expected := command.Affect; if expected < 0 { expected = 0 }
Expected(affect) == IF affect < 0 THEN 0 ELSE affect

\* fmt.Errorf(expectedDifferentAffectedRows, expected, affected, command.Query)
RowCountMismatch(expected, actual, query, idx) ==
  [kind |-> "RowCountMismatch", idx |-> idx, expected |-> expected,
   actual |-> actual, query |-> query]

\* No revision, or every revision, defers the rollback.
DefersRollbackNever(v) == FALSE
DefersRollbackAlways(v) == TRUE
\* Handler.Batch registers "defer tx.Rollback()"; Batch(tx, ...) does not.
DefersRollback(v) == v = "handler"

\* The "read" revision registers "defer rows.Close()" once the query succeeded.
DefersClose(v) == v = "read"

\* The other revisions call rows.Close() themselves when rows.Err() is set.
ClosesOnRowsErr(v) == v \in {"handler", "scan"}

\* Batch(tx, ...) returns the results slice; Handler.Batch has none.
HasResults(v) == v \in TxVariants

\* make([]interface{}, len(commands))
MakeResults(n) == [k \in 1..n |-> Nil]

\* ArgsFunc ignored: the fixed Args always.
ResolvedArgsStatic(v, command, res) == [from |-> "Args", seen |-> <<>>]
\* ArgsFunc passed a fresh, empty results slice.
ResolvedArgsFresh(v, command, res) ==
  IF command.argsFunc
    THEN [from |-> "ArgsFunc", seen |-> IF HasResults(v) THEN MakeResults(Len(res)) ELSE <<>>]
    ELSE [from |-> "Args", seen |-> <<>>]
\* args := command.Args; if command.ArgsFunc != nil { args = command.ArgsFunc(results) }
\* The arguments are the fixed Args, or what ArgsFunc made of the results it
\* was passed (seen).  Handler.Batch's ArgsFunc takes no argument.
ResolvedArgs(v, command, res) ==
  IF command.argsFunc
    THEN [from |-> "ArgsFunc", seen |-> IF HasResults(v) THEN res ELSE <<>>]
    ELSE [from |-> "Args", seen |-> <<>>]

\* The README's ReadOne: "var x int; err := scan(&x); return x, err".
ReadOneValue(row) == IntVal(row)

\* The README's ReadAll: "people = append(people, person); return people, err".
ReadAllValue(m, row) == SliceVal(Append(m.v, row))

\* memo left as the previous command's loop left it.
SeedStale(command, m) == m
\* memo := command.Init (memo := command.Memo in the "scan" revision)
Seed(command, m) == command.init

\* ReadOne under a "for rows.Next()".
AfterReadOneLoop == "readOne"
\* ReadOne sits in an "if rows.Next()", not in a "for": rows.Err() is next.
AfterReadOne == "rowsErr"

\* ReadAll tried first; and an absent ReadAll taken for a present one.
ReaderAllFirst(command) ==
  IF command.readAll THEN "readAll"
  ELSE IF command.readOne THEN "readOne"
  ELSE "rowsErr"
ReaderDefaultAll(command) == IF command.readOne THEN "readOne" ELSE "readAll"
\* if command.ReadOne != nil { ... } else if command.ReadAll != nil { ... }
\* With neither, rows.Err() comes next.
Reader(command) ==
  IF command.readOne THEN "readOne"
  ELSE IF command.readAll THEN "readAll"
  ELSE "rowsErr"

\* results = append(results, result); and a store that is left out.
StoreAppend(res, idx, val) == Append(res, val)
StoreNever(res, idx, val) == res
\* results[i] = result / results[i] = memo
Store(res, idx, val) == [res EXCEPT ![idx] = val]

\* The loop index advanced by two.
NextIndexSkip(n) == n + 2
\* for i, command := range commands: the next iteration.
NextIndex(n) == n + 1

\* rows.Close() left to a later time.
CloseRowsLater(open, idx) == open
\* rows.Close() releases the cursor of command idx.
CloseRows(open, idx) == open \ {idx}

\* return nil, err
ReturnedResultsNone(res) == MakeResults(Len(res))
\* return results, err / return results, nil
ReturnedResults(res) == res

\* The failure leaves the loop but not the function: the commit follows.
FailAndCommit(e) == /\ err' = e
                    /\ raised' = e
                    /\ pc' = "commit"
\* return err / return results, err: the loop is left at once.
Fail(e) == /\ err' = e
           /\ raised' = e
           /\ pc' = "return"

\* The call goes on to step p.
Goto(p) == /\ pc' = p
           /\ UNCHANGED <<err, raised>>

Cmd == commands[i]
Statement(kind, ok) == [idx |-> i, kind |-> kind, args |-> args, ok |-> ok]
Range(s) == {s[k] : k \in 1..Len(s)}

\* The indices of the statements the transaction executed.
Written == {stmts[k].idx : k \in {n \in 1..Len(stmts) : stmts[n].ok}}

\* What rows.Next() may return: the cursor has at most MaxRows rows.
HasNext == IF rows.pos < MaxRows THEN BOOLEAN ELSE {FALSE}

\* The record of one callback invocation, on the row the cursor stands on.
Invocation(fn, in, out, failed) ==
  [idx |-> i, fn |-> fn, row |-> Row(i, rows.pos + 1), in |-> in, out |-> out,
   failed |-> failed]

\* --------------------------------------------------------------- the call

\* A call of one of the three revisions.  Batch(tx, ...) is handed an open
\* transaction (README: tx := db.BeginTx(...)).
CallOf(vs) ==
  /\ pc = "idle"
  /\ \E v \in vs : \E cmds \in CommandLists(v) :
       /\ variant' = v
       /\ commands' = cmds
       /\ results' = IF HasResults(v) THEN MakeResults(Len(cmds)) ELSE <<>>
       /\ nexts' = [k \in 1..Len(cmds) |-> 0]
       /\ tx' = IF v = "handler" THEN "none" ELSE "open"
       /\ pc' = IF v = "handler" THEN "begin" ELSE "loop"
  /\ UNCHANGED <<i, args, memo, err, rows, opened, deferred, stmts, resolved,
                 calls, affected, raised, fin, durable>>

\* A call of any revision, of Batch(tx, ...), of Handler.Batch.
Call == CallOf(Variants)
CallTx == CallOf(TxVariants)
CallHandler == CallOf({"handler"})

\* tx, err := handler.db.Begin(); if err != nil { return err }; defer tx.Rollback()
Begin ==
  /\ pc = "begin"
  /\ \E ok \in BOOLEAN :
       IF ok
         THEN /\ tx' = "open"
              /\ Goto("loop")
         ELSE /\ tx' = tx
              /\ pc' = "returned"
              /\ err' = Err("BeginFault", 0)
              /\ raised' = Err("BeginFault", 0)
  /\ UNCHANGED <<variant, commands, i, args, results, memo, rows, opened, deferred,
                 stmts, resolved, calls, nexts, affected, fin, durable>>

\* The head of an iteration: the arguments are resolved.
ResolveArgs ==
  /\ pc = "loop"
  /\ i <= Len(commands)
  /\ args' = ResolvedArgs(variant, Cmd, results)
  /\ resolved' = IF Cmd.argsFunc
                   THEN Append(resolved, [idx |-> i,
                                          saw |-> ResolvedArgs(variant, Cmd, results).seen])
                   ELSE resolved
  /\ Goto("stmt")
  /\ UNCHANGED <<variant, commands, i, results, memo, tx, rows, opened, deferred,
                 stmts, calls, nexts, affected, fin, durable>>

\* The range loop is over: Handler.Batch commits, Batch(tx, ...) returns.
LoopEnd ==
  /\ pc = "loop"
  /\ i > Len(commands)
  /\ Goto(IF variant = "handler" THEN "commit" ELSE "return")
  /\ UNCHANGED <<variant, commands, i, args, results, memo, tx, rows, opened,
                 deferred, stmts, resolved, calls, nexts, affected, fin, durable>>

\* The write-check branch: tx.Exec, result.RowsAffected, the comparison.
Exec ==
  /\ pc = "stmt"
  /\ IsWriteCheck(Cmd)
  /\ \/ \* tx.Exec fails
        /\ stmts' = Append(stmts, Statement("exec", FALSE))
        /\ Fail(Err("ExecFault", i))
        /\ UNCHANGED <<i, affected>>
     \/ \* result.RowsAffected fails
        /\ stmts' = Append(stmts, Statement("exec", TRUE))
        /\ Fail(Err("RowsAffectedFault", i))
        /\ UNCHANGED <<i, affected>>
     \/ \* the driver reports a affected rows
        \E a \in 0..MaxAffected :
          /\ stmts' = Append(stmts, Statement("exec", TRUE))
          /\ affected' = Append(affected, [idx |-> i, count |-> a])
          /\ IF Expected(Cmd.affect) # a
               THEN /\ Fail(RowCountMismatch(Expected(Cmd.affect), a, QueryText(i), i))
                    /\ i' = i
               ELSE /\ Goto("loop")
                    /\ i' = NextIndex(i)
  /\ UNCHANGED <<variant, commands, args, results, memo, tx, rows, opened, deferred,
                 resolved, calls, nexts, fin, durable>>

\* The read branch: rows, err := tx.Query(command.Query, args...), and the
\* choice of the reader.  The statement may change rows of the database:
\* Affect == 0 does not make it a SELECT.
Query ==
  /\ pc = "stmt"
  /\ ~IsWriteCheck(Cmd)
  /\ \/ \* tx.Query fails
        /\ stmts' = Append(stmts, Statement("query", FALSE))
        /\ Fail(Err("ExecFault", i))
        /\ UNCHANGED <<rows, opened, deferred, memo>>
     \/ \* a cursor, of a statement that changed no row (0) or some (1)
        \E c \in {0, 1} :
          /\ stmts' = Append(stmts, Statement("query", TRUE))
          /\ rows' = [idx |-> i, pos |-> 0, changed |-> c]
          /\ opened' = opened \cup {i}
          /\ deferred' = IF DefersClose(variant) THEN Append(deferred, i) ELSE deferred
          /\ memo' = IF Reader(Cmd) = "readAll" /\ HasResults(variant)
                       THEN Seed(Cmd, memo) ELSE memo
          /\ Goto(Reader(Cmd))
  /\ UNCHANGED <<variant, commands, i, args, results, tx, resolved, calls, nexts,
                 affected, fin, durable>>

\* if command.ReadOne != nil { if rows.Next() { result, err := command.ReadOne(rows.Scan) ... } }
ReadOne ==
  /\ pc = "readOne"
  /\ nexts' = [nexts EXCEPT ![i] = @ + 1]
  /\ \E more \in HasNext :
       IF more
         THEN \E failed \in BOOLEAN :
                /\ rows' = [rows EXCEPT !.pos = @ + 1]
                /\ calls' = Append(calls, Invocation("ReadOne", Nil,
                                                     IF HasResults(variant)
                                                       THEN ReadOneValue(Row(i, rows.pos + 1))
                                                       ELSE Nil,
                                                     failed))
                /\ IF failed
                     THEN /\ Fail(Err("DecodeFault", i))
                          /\ results' = results
                     ELSE /\ results' = IF HasResults(variant)
                                          THEN Store(results, i,
                                                     ReadOneValue(Row(i, rows.pos + 1)))
                                          ELSE results
                          /\ Goto(AfterReadOne)
         ELSE /\ Goto("rowsErr")
              /\ UNCHANGED <<rows, calls, results>>
  /\ UNCHANGED <<variant, commands, i, args, memo, tx, opened, deferred, stmts,
                 resolved, affected, fin, durable>>

\* One turn of "for rows.Next() { memo, err = command.ReadAll(memo, rows.Scan) ... }",
\* and "results[i] = memo" when rows.Next() returns false.
ReadAll ==
  /\ pc = "readAll"
  /\ nexts' = [nexts EXCEPT ![i] = @ + 1]
  /\ \E more \in HasNext :
       IF more
         THEN \E failed \in BOOLEAN :
                /\ rows' = [rows EXCEPT !.pos = @ + 1]
                /\ calls' = Append(calls, Invocation("ReadAll", memo,
                                                     IF HasResults(variant)
                                                       THEN ReadAllValue(memo, Row(i, rows.pos + 1))
                                                       ELSE Nil,
                                                     failed))
                /\ memo' = IF HasResults(variant)
                             THEN ReadAllValue(memo, Row(i, rows.pos + 1)) ELSE memo
                /\ results' = results
                /\ IF failed
                     THEN Fail(Err("DecodeFault", i))
                     ELSE Goto("readAll")
         ELSE /\ results' = IF HasResults(variant) THEN Store(results, i, memo)
                            ELSE results
              /\ Goto("rowsErr")
              /\ UNCHANGED <<rows, calls, memo>>
  /\ UNCHANGED <<variant, commands, i, args, tx, opened, deferred, stmts, resolved,
                 affected, fin, durable>>

\* if err = rows.Err(); err != nil { rows.Close(); return err }
\* (the "read" revision leaves the Close to its defer)
RowsErr ==
  /\ pc = "rowsErr"
  /\ \E fault \in BOOLEAN :
       IF fault
         THEN /\ opened' = IF ClosesOnRowsErr(variant) THEN CloseRows(opened, i) ELSE opened
              /\ Fail(Err("IterationFault", i))
         ELSE /\ Goto("close")
              /\ UNCHANGED opened
  /\ UNCHANGED <<variant, commands, i, args, results, memo, tx, rows, deferred, stmts,
                 resolved, calls, nexts, affected, fin, durable>>

\* err = rows.Close(); if err != nil { return err }; the iteration ends and the
\* local rows goes out of scope.
RowsClose ==
  /\ pc = "close"
  /\ opened' = CloseRows(opened, i)
  /\ \E failed \in BOOLEAN :
       IF failed
         THEN /\ Fail(Err("ReleaseFault", i))
              /\ UNCHANGED <<i, rows>>
         ELSE /\ Goto("loop")
              /\ i' = NextIndex(i)
              /\ rows' = NoRows
  /\ UNCHANGED <<variant, commands, args, results, memo, tx, deferred, stmts,
                 resolved, calls, nexts, affected, fin, durable>>

\* tx.Commit(); return nil.  The error of Commit is dropped.  database/sql marks
\* the transaction done whether or not the driver's commit succeeds.
Commit ==
  /\ pc = "commit"
  /\ \E ok \in BOOLEAN :
       /\ tx' = IF ok THEN "committed" ELSE "commitFailed"
       /\ durable' = IF ok THEN Written ELSE {}
       /\ raised' = IF ok THEN raised ELSE Err("CommitFault", 0)
  /\ fin' = Append(fin, [op |-> "commit", by |-> "Batch"])
  /\ opened' = {}
  /\ err' = NoErr
  /\ pc' = "return"
  /\ UNCHANGED <<variant, commands, i, args, results, memo, rows, deferred, stmts,
                 resolved, calls, nexts, affected>>

\* The return: the deferred calls run.  A deferred rows.Close() releases its
\* cursor; the deferred tx.Rollback() rolls back an open transaction (which
\* releases its cursors too) and is refused, ErrTxDone, once it is done.
\* The local rows goes out of scope; the results slice is handed back.
Return ==
  /\ pc = "return"
  /\ IF DefersRollback(variant) /\ tx = "open"
       THEN /\ tx' = "rolledBack"
            /\ fin' = Append(fin, [op |-> "rollback", by |-> "Batch"])
            /\ opened' = {}
       ELSE /\ opened' = opened \ Range(deferred)
            /\ UNCHANGED <<tx, fin>>
  /\ results' = ReturnedResults(results)
  /\ rows' = NoRows
  /\ pc' = "returned"
  /\ UNCHANGED <<variant, commands, i, args, memo, err, deferred,
                 stmts, resolved, calls, nexts, affected, raised, durable>>

\* The README's caller of Batch(tx, ...):
\* if err != nil { tx.Rollback() } else { tx.Commit() ... }
Caller ==
  /\ pc = "returned"
  /\ variant \in TxVariants
  /\ tx = "open"
  /\ IF err # NoErr
       THEN /\ tx' = "rolledBack"
            /\ fin' = Append(fin, [op |-> "rollback", by |-> "caller"])
            /\ durable' = durable
       ELSE /\ fin' = Append(fin, [op |-> "commit", by |-> "caller"])
            /\ \E ok \in BOOLEAN :
                 /\ tx' = IF ok THEN "committed" ELSE "commitFailed"
                 /\ durable' = IF ok THEN Written ELSE {}
  /\ opened' = {}
  /\ pc' = "done"
  /\ UNCHANGED <<variant, commands, i, args, results, memo, err, rows, deferred,
                 stmts, resolved, calls, nexts, affected, raised>>

Next ==
  \/ Call
  \/ Begin
  \/ ResolveArgs
  \/ LoopEnd
  \/ Exec
  \/ Query
  \/ ReadOne
  \/ ReadAll
  \/ RowsErr
  \/ RowsClose
  \/ Commit
  \/ Return
  \/ Caller

Spec == Init /\ [][Next]_vars

\* Batch(tx, commands) alone, in its two revisions, with the README's caller.
NextTx ==
  \/ CallTx
  \/ ResolveArgs
  \/ LoopEnd
  \/ Exec
  \/ Query
  \/ ReadOne
  \/ ReadAll
  \/ RowsErr
  \/ RowsClose
  \/ Return
  \/ Caller

SpecTx == Init /\ [][NextTx]_vars

\* Handler.Batch alone.
NextHandler ==
  \/ CallHandler
  \/ Begin
  \/ ResolveArgs
  \/ LoopEnd
  \/ Exec
  \/ Query
  \/ ReadOne
  \/ ReadAll
  \/ RowsErr
  \/ RowsClose
  \/ Commit
  \/ Return

SpecHandler == Init /\ [][NextHandler]_vars

\* ----------------------------------------------------------------- claims

Max(a, b) == IF a > b THEN a ELSE b

Finalized == {"committed", "commitFailed", "rolledBack"}

\* The errors a command can fail with.
CommandFaults == {"ExecFault", "RowsAffectedFault", "RowCountMismatch", "DecodeFault",
                  "IterationFault", "ReleaseFault"}

\* The callback invocations of command n, in order.
CallsOf(n) == SelectSeq(calls, LAMBDA c : c.idx = n)

ReadAllCommand(n) == commands[n].affect = 0 /\ ~commands[n].readOne /\ commands[n].readAll
ReadOneCommand(n) == commands[n].affect = 0 /\ commands[n].readOne

\* The row loop of read command n is over, and no callback failed.
Completed(n) ==
  \/ i > n
  \/ /\ i = n
     /\ \/ pc \in {"rowsErr", "close"}
        \/ raised.kind \in {"IterationFault", "ReleaseFault"}

\* init folded left over the first k rows of command n's cursor.
FoldRows(init, n, k) == SliceVal(init.v \o [j \in 1..k |-> Row(n, j)])

\* What command n stores in its slot, read off its callback invocations.
Produced(n) ==
  LET c == commands[n]
      cs == CallsOf(n)
  IN IF c.affect # 0 THEN Nil
     ELSE IF c.readOne THEN (IF Len(cs) = 0 THEN Nil ELSE cs[Len(cs)].out)
     ELSE IF c.readAll THEN (IF Len(cs) = 0 THEN c.init ELSE cs[Len(cs)].out)
     ELSE Nil

\* C1: a call of Handler.Batch that began a transaction finalizes it exactly
\* once before it returns: one Commit or Rollback call finds the transaction
\* open, the rollback when and only when a command failed, and the transaction
\* is not open at the return.
C1_FinalizedExactlyOnce ==
  (variant = "handler" /\ tx # "none") =>
     /\ Len(fin) <= 1
     /\ pc = "returned" =>
          /\ tx \in Finalized
          /\ Len(fin) = 1
          /\ fin[1].by = "Batch"
          /\ (fin[1].op = "rollback") = (raised.kind \in CommandFaults)
          /\ (tx = "rolledBack") = (raised.kind \in CommandFaults)

\* A command of Handler.Batch failed in its callback and the call returned.
C1_Witness ==
  /\ variant = "handler"
  /\ pc = "returned"
  /\ tx = "rolledBack"
  /\ raised.kind = "DecodeFault"

\* C2: when every command succeeded and the commit fails, Handler.Batch
\* returns the commit error.
C2_CommitErrorReturned ==
  (variant = "handler" /\ pc = "returned" /\ tx = "commitFailed") =>
     err = Err("CommitFault", 0)

\* C3: when command n of Handler.Batch fails, no later command issues a
\* statement or has its ArgsFunc called, the call returns that error, and the
\* transaction is rolled back: none of its writes is durable.
C3_FailureStopsAndRollsBack ==
  (variant = "handler" /\ pc = "returned" /\ raised.kind \in CommandFaults) =>
     /\ err = raised
     /\ i = raised.idx
     /\ \A k \in 1..Len(stmts) : stmts[k].idx <= raised.idx
     /\ \A k \in 1..Len(resolved) : resolved[k].idx <= raised.idx
     /\ tx = "rolledBack"
     /\ durable = {}

\* The first of two commands wrote and failed its row count; the second, which
\* has an ArgsFunc, never ran.
C3_Witness ==
  /\ variant = "handler"
  /\ pc = "returned"
  /\ Len(commands) = 2
  /\ commands[2].argsFunc
  /\ raised.kind = "RowCountMismatch"
  /\ raised.idx = 1
  /\ Written = {1}

C5_AffectCheck ==
  \A k \in 1..Len(affected) :
    LET r == affected[k]
        c == commands[r.idx]
        e == Max(c.affect, 0)
    IN /\ c.affect # 0
       /\ IF r.count = e
            THEN i > r.idx /\ raised.idx # r.idx
            ELSE /\ i = r.idx
                 /\ raised = RowCountMismatch(e, r.count, QueryText(r.idx), r.idx)
                 /\ err = raised

\* A negative Affect passed with 0 rows, then a positive one failed with 0 rows.
C5_Witness ==
  /\ Len(affected) = 2
  /\ commands[1].affect < 0
  /\ affected[1].count = 0
  /\ commands[2].affect = 1
  /\ affected[2].count = 0
  /\ raised.kind = "RowCountMismatch"
  /\ raised.idx = 2

\* C6: a command with Affect = 0 takes the read branch: its statement is a
\* query, its affected-row count is never obtained, and no row-count error is
\* ever raised at it, whatever number of rows the statement changed.
C6_ZeroAffectUnchecked ==
  \A n \in 1..Len(commands) :
    commands[n].affect = 0 =>
      /\ \A k \in 1..Len(affected) : affected[k].idx # n
      /\ \A k \in 1..Len(stmts) : stmts[k].idx = n => stmts[k].kind = "query"
      /\ raised.idx = n => raised.kind \notin {"RowCountMismatch", "RowsAffectedFault"}

\* Two commands with Affect = 0: the first is done and the batch went on; the
\* second's statement changed rows and only its cursor is left to release.
C6_Witness ==
  /\ Len(commands) = 2
  /\ commands[1].affect = 0
  /\ commands[2].affect = 0
  /\ i = 2
  /\ pc = "close"
  /\ rows.changed > 0
  /\ raised = NoErr

\* C7: ReadAll (Scan) is called once per row the cursor yields, in cursor
\* order; the first call gets the command's own Init and every later call the
\* value the call before returned; when the row loop ends the slot holds the
\* last returned value, which is Init folded over the rows, and Init itself
\* when there was no row.
C7_ReadAllFold ==
  variant \in TxVariants =>
    \A n \in 1..Len(commands) :
      ReadAllCommand(n) =>
        LET cs == CallsOf(n)
        IN /\ \A j \in 1..Len(cs) :
                /\ cs[j].fn = "ReadAll"
                /\ cs[j].row = Row(n, j)
                /\ cs[j].in = IF j = 1 THEN commands[n].init ELSE cs[j - 1].out
           /\ (i = n /\ pc \in {"readAll", "rowsErr", "close"}) => Len(cs) = rows.pos
           /\ Completed(n) =>
                /\ nexts[n] = Len(cs) + 1
                /\ results[n] = IF Len(cs) = 0 THEN commands[n].init ELSE cs[Len(cs)].out
                /\ results[n] = FoldRows(commands[n].init, n, Len(cs))

\* Two ReadAll commands, over one row and over two rows.
C7_Witness ==
  /\ variant = "read"
  /\ pc = "returned"
  /\ err = NoErr
  /\ Len(commands) = 2
  /\ ReadAllCommand(1)
  /\ ReadAllCommand(2)
  /\ results[1] = SliceVal(<<0, 11>>)
  /\ results[2] = SliceVal(<<0, 21, 22>>)

\* C8: a ReadOne (ScanOnce) command advances its cursor at most once and calls
\* the callback at most once, on the first row: once, the slot holding what it
\* returned, when there is a row, and never, the slot unset, when there is none.
C8_ReadOneAtMostOnce ==
  \A n \in 1..Len(commands) :
    ReadOneCommand(n) =>
      LET cs == CallsOf(n)
      IN /\ nexts[n] <= 1
         /\ Len(cs) <= 1
         /\ \A j \in 1..Len(cs) : cs[j].fn = "ReadOne" /\ cs[j].row = Row(n, 1)
         /\ (i = n /\ pc \in {"rowsErr", "close"}) => (nexts[n] = 1 /\ Len(cs) = rows.pos)
         /\ (HasResults(variant) /\ Completed(n)) =>
              results[n] = IF Len(cs) = 1 THEN ReadOneValue(Row(n, 1)) ELSE Nil

\* Two ReadOne commands: the first found a row, the second an empty result set.
C8_Witness ==
  /\ variant = "read"
  /\ pc = "returned"
  /\ err = NoErr
  /\ Len(commands) = 2
  /\ ReadOneCommand(1)
  /\ ReadOneCommand(2)
  /\ nexts = <<1, 1>>
  /\ results = <<IntVal(11), Nil>>

\* C9: the results ArgsFunc of command n is passed hold, at every index below
\* n, what that command produced (which is what its slot holds from then on),
\* and are unset at every index from n on.
C9_ResolverSeesPriorResults ==
  variant \in TxVariants =>
    \A k \in 1..Len(resolved) :
      LET r == resolved[k]
      IN /\ Len(r.saw) = Len(commands)
         /\ \A j \in 1..Len(commands) :
              r.saw[j] = IF j < r.idx THEN Produced(j) ELSE Nil
         /\ \A j \in 1..(r.idx - 1) : r.saw[j] = results[j]

\* The ArgsFunc of the second command was passed the int the first one read.
C9_Witness ==
  /\ variant \in TxVariants
  /\ pc = "stmt"
  /\ Len(resolved) > 0
  /\ resolved[Len(resolved)].idx = 2
  /\ resolved[Len(resolved)].saw = <<IntVal(11), Nil>>

\* C10: no cursor a read command opened is still open when the call returns.
C10_CursorsReleasedAtReturn ==
  pc = "returned" => opened = {}

\* C11: the results of Batch(tx, commands) have one slot per command from the
\* call to the return; a slot is written by its own command only: the slots of
\* the commands not yet reached are unset and every slot of a finished command
\* holds what that command produced.
C11_ResultsIndexAligned ==
  (variant \in TxVariants /\ pc # "idle") =>
     /\ Len(results) = Len(commands)
     /\ \A n \in 1..Len(results) :
          /\ n > i => results[n] = Nil
          /\ n < i => results[n] = Produced(n)
          /\ results[n] \in {Nil, Produced(n)}

\* Every command succeeded: a write-check between two reads.
C11_Witness ==
  /\ variant = "read"
  /\ pc = "returned"
  /\ err = NoErr
  /\ Len(commands) = 2
  /\ commands[1].affect # 0
  /\ ReadAllCommand(2)
  /\ results = <<Nil, SliceVal(<<0, 21>>)>>

\* C12: commands execute strictly in index order and each at most once: the
\* k-th statement the transaction receives belongs to command k, a command
\* whose turn has come issues exactly one statement, and the statement is an
\* exec when affect # 0 and a query when affect = 0, whatever else is set.
C12_InOrderOneStatementEach ==
  /\ Len(stmts) <= Len(commands)
  /\ \A k \in 1..Len(stmts) :
       /\ stmts[k].idx = k
       /\ stmts[k].kind = (IF commands[k].affect # 0 THEN "exec" ELSE "query")
  /\ pc \in {"loop", "stmt"} => Len(stmts) = i - 1
  /\ pc \in {"readOne", "readAll", "rowsErr", "close"} => Len(stmts) = i
  /\ (pc = "returned" /\ err = NoErr /\ tx # "none") => Len(stmts) = Len(commands)

\* Two statements were issued: a query for a command with affect = 0 and an
\* exec for a write-check command that also carries both readers.
C12_Witness ==
  /\ pc = "returned"
  /\ err = NoErr
  /\ Len(stmts) = 2
  /\ commands[1].affect = 0 /\ commands[1].argsFunc /\ ~commands[1].readOne
  /\ commands[2].affect # 0 /\ commands[2].readOne /\ commands[2].readAll
  /\ stmts[1].kind = "query"
  /\ stmts[2].kind = "exec"

\* C13: at most one row cursor is open at any time during a call, and it is
\* the cursor of the command being executed: when a command resolves its
\* arguments or issues its statement, no cursor of an earlier command is open.
C13_OneCursorAtATime ==
  /\ Cardinality(opened) <= 1
  /\ opened \subseteq {i}
  /\ pc \in {"loop", "stmt"} => opened = {}

\* The second command is about to issue its statement, after the first one
\* opened a cursor and read a row from it.
C13_Witness ==
  /\ pc = "stmt"
  /\ i = 2
  /\ commands[1].affect = 0
  /\ stmts[1].ok
  /\ nexts[1] >= 1
  /\ opened = {}

\* Command n is a read command with both ReadOne and ReadAll set.
BothReaders(n) == commands[n].affect = 0 /\ commands[n].readOne /\ commands[n].readAll

\* C14: for a read command with both readers set only ReadOne is used: ReadAll
\* is never invoked, ReadOne at most once, Init is never stored, and once the
\* row step is over the slot holds ReadOne's value if there was a row and is
\* unset otherwise.
C14_ReadOnePrecedence ==
  \A n \in 1..Len(commands) :
    BothReaders(n) =>
      /\ \A k \in 1..Len(CallsOf(n)) : CallsOf(n)[k].fn = "ReadOne"
      /\ Len(CallsOf(n)) <= 1
      /\ variant \in TxVariants =>
           /\ results[n] \in {Nil, ReadOneValue(Row(n, 1))}
           /\ Completed(n) =>
                results[n] = IF Len(CallsOf(n)) = 1 THEN ReadOneValue(Row(n, 1)) ELSE Nil

\* Both cases: the first command (both readers, an Init) found a row, the
\* second (both readers) found none.
C14_Witness ==
  /\ variant = "read"
  /\ pc = "returned"
  /\ err = NoErr
  /\ Len(commands) = 2
  /\ BothReaders(1) /\ commands[1].init # Nil
  /\ BothReaders(2)
  /\ nexts = <<1, 1>>
  /\ results = <<ReadOneValue(Row(1, 1)), Nil>>

\* C15: the slot of a write-check command (affect # 0) is unset at every point
\* of the call and in the returned results, whether the command succeeded,
\* its exec failed or its row count mismatched; its ReadOne, ReadAll and Init
\* are never used: no callback is invoked and no cursor is advanced for it.
C15_WriteCheckSlotUnset ==
  \A n \in 1..Len(commands) :
    commands[n].affect # 0 =>
      /\ Len(CallsOf(n)) = 0
      /\ nexts[n] = 0
      /\ \A k \in 1..Len(stmts) : stmts[k].idx = n => stmts[k].kind = "exec"
      /\ variant \in TxVariants => results[n] = Nil

\* Returned after a write-check that succeeded and one whose row count
\* mismatched, both carrying ReadOne, ReadAll and Init.
C15_Witness ==
  /\ variant = "read"
  /\ pc = "returned"
  /\ Len(commands) = 2
  /\ \A n \in 1..2 : commands[n].affect # 0 /\ commands[n].readOne /\ commands[n].readAll
  /\ commands[2].affect < 0
  /\ raised.kind = "RowCountMismatch"
  /\ raised.idx = 2
  /\ results = <<Nil, Nil>>

\* The calls of ArgsFunc made for command n.
ResolvedOf(n) == SelectSeq(resolved, LAMBDA r : r.idx = n)

\* The loop has started the iteration of command n: its arguments are resolved.
Reached(n) == n < i \/ (n = i /\ (pc = "stmt" \/ Len(stmts) = i))

\* C16: a command whose turn has come has its ArgsFunc, if set, called exactly
\* once, directly before its statement, and the statement's parameters are
\* what ArgsFunc returned; without ArgsFunc they are Args as it stands; the
\* ArgsFunc of a command the loop never reached is never called.
C16_ArgsResolvedOncePerStatement ==
  /\ \A n \in 1..Len(commands) :
       Len(ResolvedOf(n)) =
         IF commands[n].argsFunc /\ Reached(n) THEN 1 ELSE 0
  /\ \A k \in 1..Len(stmts) :
       IF commands[k].argsFunc
         THEN /\ stmts[k].args.from = "ArgsFunc"
              /\ stmts[k].args.seen = ResolvedOf(k)[1].saw
         ELSE stmts[k].args = [from |-> "Args", seen |-> <<>>]
  /\ (pc = "stmt" /\ Cmd.argsFunc) =>
       /\ resolved[Len(resolved)].idx = i
       /\ Len(stmts) = i - 1

\* The first command, with ArgsFunc, failed; the second, also with ArgsFunc,
\* was never reached and its ArgsFunc never called.
C16_Witness ==
  /\ pc = "returned"
  /\ Len(commands) = 2
  /\ commands[1].argsFunc /\ commands[2].argsFunc
  /\ raised.idx = 1
  /\ Len(stmts) = 1
  /\ stmts[1].args.from = "ArgsFunc"
  /\ Len(resolved) = 1

\* Command n is a read command with neither ReadOne nor ReadAll set.
NoReader(n) == commands[n].affect = 0 /\ ~commands[n].readOne /\ ~commands[n].readAll

\* C17 as stated: the cursor of a read command without a reader is drained,
\* that is advanced until rows.Next() reports exhaustion, before it is
\* discarded: a finished command of that kind has advanced its cursor.
C17_CursorDrained ==
  \A n \in 1..Len(commands) :
    (NoReader(n) /\ n < i) => nexts[n] >= 1

\* C17 as amended: the cursor of a read command without a reader is never
\* advanced; it is only checked for its terminal error and released, no
\* callback runs and nothing is recorded in the command's slot.
C17_CursorClosedUnread ==
  \A n \in 1..Len(commands) :
    NoReader(n) =>
      /\ nexts[n] = 0
      /\ Len(CallsOf(n)) = 0
      /\ variant \in TxVariants => results[n] = Nil
      /\ (n < i \/ pc \in {"returned", "done"}) => n \notin opened

\* A read command without a reader ran to its end on an open cursor.
C17_Witness ==
  /\ pc = "loop"
  /\ i = 2
  /\ NoReader(1)
  /\ stmts[1].ok
  /\ stmts[1].kind = "query"
  /\ nexts[1] = 0
  /\ opened = {}

\* C18: when Batch(tx, commands) has returned an error raised at command n,
\* every slot after n in the returned results is unset and every slot before
\* n holds exactly what its command produced.
C18_PartialResultsOnError ==
  (variant \in TxVariants /\ pc \in {"returned", "done"} /\ err # NoErr) =>
     /\ raised = err
     /\ raised.idx \in 1..Len(commands)
     /\ Len(results) = Len(commands)
     /\ \A j \in 1..Len(results) :
          /\ j > raised.idx => results[j] = Nil
          /\ j < raised.idx => results[j] = Produced(j)

\* The second command failed after the first had stored a value.
C18_Witness ==
  /\ variant \in TxVariants
  /\ pc = "returned"
  /\ err # NoErr
  /\ raised.idx = 2
  /\ results[1] # Nil
  /\ results[1] = Produced(1)

\* Batch(tx, commands) has returned an error of one of the kinds ks, raised at a
\* read command.
ReturnedReadError(ks) ==
  /\ variant \in TxVariants
  /\ pc \in {"returned", "done"}
  /\ raised.kind \in ks
  /\ raised.idx \in 1..Len(commands)
  /\ commands[raised.idx].affect = 0

\* C19 as stated: slot i is unset if the error is an execution fault or a
\* callback error, and populated if it is a cursor iteration fault or a cursor
\* release fault.
C19_SlotPopulatedOnCursorFault ==
  /\ ReturnedReadError({"ExecFault", "DecodeFault"}) => results[raised.idx] = Nil
  /\ ReturnedReadError({"IterationFault", "ReleaseFault"}) => results[raised.idx] # Nil

\* C19 as amended: slot i is unset if the error is an execution fault or a
\* callback error; on a cursor iteration or release fault it holds what the row
\* step stored: ReadOne's value if there was a row and nothing if there was
\* none, the final accumulator (Init folded over all rows) for ReadAll, and
\* nothing for a command without a reader.
C19_SlotOnReadError ==
  /\ ReturnedReadError({"ExecFault", "DecodeFault"}) => results[raised.idx] = Nil
  /\ ReturnedReadError({"IterationFault", "ReleaseFault"}) =>
       LET n == raised.idx
       IN /\ ReadOneCommand(n) =>
               results[n] = IF Len(CallsOf(n)) = 1 THEN ReadOneValue(Row(n, 1)) ELSE Nil
          /\ ReadAllCommand(n) =>
               results[n] = FoldRows(commands[n].init, n, Len(CallsOf(n)))
          /\ NoReader(n) => results[n] = Nil

\* A cursor fault after ReadOne found no row: the slot is unset.
C19_Witness ==
  /\ ReturnedReadError({"IterationFault", "ReleaseFault"})
  /\ ReadOneCommand(raised.idx)
  /\ nexts[raised.idx] = 1
  /\ Len(CallsOf(raised.idx)) = 0
  /\ results[raised.idx] = Nil

====
